---- MODULE Spec2Model ----
(***************************************************************************)
(* BrainfoamKit: the VirtualMachine of brainfoamkit_lib/machine.rs, with   *)
(* the Program and Byte types it uses.  Program and Byte are defined in    *)
(* other files of the crate; they are modelled from the design document   *)
(* (sections 3, 4.1 and 4.2).                                              *)
(*                                                                         *)
(* Positions are 0-based as in Rust: the instruction at position p of a    *)
(* sequence s is s[p + 1].                                                 *)
(*                                                                         *)
(* usize values: memory_pointer holds the representative nearest zero of   *)
(* the usize value modulo 2^64, so -1 stands for usize::MAX (2^64 - 1).    *)
(* Within the bounds below the pointer stays within a few steps of zero,   *)
(* so the encoding is exact: the value is a valid tape index exactly when  *)
(* 0 <= memory_pointer < TapeLen, `-= 1` underflows exactly at 0 and       *)
(* `+= 1` overflows exactly at -1.                                         *)
(***************************************************************************)
EXTENDS Integers, Sequences, FiniteSets

VARIABLES tape, memory_pointer, program, program_counter,
          overflow_checks, outcome, instructions, built,
          io_calls, fetched,
          nybble, current_index, yielded, bit_refs

vars == <<tape, memory_pointer, program, program_counter,
          overflow_checks, outcome, instructions, built,
          io_calls, fetched,
          nybble, current_index, yielded, bit_refs>>

\* what a caller of the machine observes besides its state: the calls made
\* on the I/O collaborator, and what the last get_instruction call returned
observed == <<io_calls, fetched>>

\* an IterableNybble with the log of what its next() calls returned and of
\* the indices they passed to Nybble::get_bit_ref
iterator == <<nybble, current_index, yielded, bit_refs>>

vm == <<tape, memory_pointer, program, program_counter>>

-----------------------------------------------------------------------------
(* Bounds of the model *)

\* longest instruction sequence enumerated exhaustively as a load input
MaxLen == 1

\* execute_instruction is not called once program_counter has reached this
MaxPC == 6

\* longest instruction sequence enumerated exhaustively for the host driver
MaxDrive == 2

\* largest value a test stores into memory_pointer
MaxPointer == 9

\* most next() calls made on one IterableNybble
MaxCalls == 11

\* longest bracket sequence enumerated for the jump-table scan
MaxScan == 4

-----------------------------------------------------------------------------
(* Program constants *)

\* vec![Byte::default(); 30000]
TapeLen == 30000

-----------------------------------------------------------------------------
(* Instruction, Byte *)

Instruction ==
    {"IncrementPointer", "DecrementPointer", "IncrementValue",
     "DecrementValue", "OutputValue", "InputValue", "JumpForward",
     "JumpBackward", "NoOp"}

Byte == 0 .. 255

ByteDefault == 0

ByteIncrement(b) == (b + 1) % 256

ByteDecrement(b) == (b + 255) % 256

\* The tape is a vector of `length` Bytes.  It is held as its length and the
\* cells that differ from Byte::default(); every other cell of 0 .. length - 1
\* holds Byte::default().  Two tapes are equal exactly when the vectors are.
TapeNew(n) == [length |-> n, cells |-> [k \in {} |-> 0]]

\* tape[i], for 0 <= i < tape.length
TapeGet(t, i) == IF i \in DOMAIN t.cells THEN t.cells[i] ELSE ByteDefault

\* tape[i] = b, for 0 <= i < tape.length
TapeSet(t, i, b) ==
    LET keep == (DOMAIN t.cells \ {i}) \cup (IF b = ByteDefault THEN {} ELSE {i})
    IN  [length |-> t.length,
         cells |-> [k \in keep |-> IF k = i THEN b ELSE t.cells[k]]]

\* i is a valid index of the tape
TapeHas(t, i) == 0 <= i /\ i < t.length

None == [some |-> FALSE]

Some(x) == [some |-> TRUE, value |-> x]

UnwrapOr(o, d) == IF o.some THEN o.value ELSE d

-----------------------------------------------------------------------------
(* Program: the instruction sequence with its jump table (design 4.2)       *)

EmptyTable == [k \in {} |-> 0]

\* record target(i) = j and target(j) = i
Pair(table, i, j) ==
    [k \in DOMAIN table \cup {i, j} |->
        IF k = i THEN j ELSE IF k = j THEN i ELSE table[k]]

MalformedProgram == [kind |-> "error", error |-> "MalformedProgram"]

\* a mis-scan that matches a JumpBackward with the oldest pending JumpForward
PopPendingOldest(stack) ==
    [index |-> Head(stack), rest |-> Tail(stack)]

\* pop the stack of pending JumpForward positions
PopPending(stack) ==
    [index |-> stack[Len(stack)], rest |-> SubSeq(stack, 1, Len(stack) - 1)]

\* a scan that forgets the pending JumpForward positions at the end
ScanEndUnchecked(instrs, stack, table) ==
    [kind |-> "program",
     program |-> [instructions |-> instrs, jump_table |-> table]]

\* after the full scan: positions still on the stack are unmatched
ScanEnd(instrs, stack, table) ==
    IF stack = <<>>
    THEN [kind |-> "program",
          program |-> [instructions |-> instrs, jump_table |-> table]]
    ELSE MalformedProgram

RECURSIVE ScanJumps(_, _, _, _)
\* one pass over instrs from position i with the stack of pending positions
ScanJumps(instrs, i, stack, table) ==
    IF i = Len(instrs) THEN ScanEnd(instrs, stack, table)
    ELSE IF instrs[i + 1] = "JumpForward"
         THEN ScanJumps(instrs, i + 1, Append(stack, i), table)
    ELSE IF instrs[i + 1] = "JumpBackward"
         THEN IF stack = <<>> THEN MalformedProgram
              ELSE LET top == PopPending(stack)
                   IN  ScanJumps(instrs, i + 1, top.rest,
                                 Pair(table, top.index, i))
    ELSE ScanJumps(instrs, i + 1, stack, table)

\* Program::from(Vec<Instruction>)
ProgramFrom(instrs) == ScanJumps(instrs, 0, <<>>, EmptyTable)

\* Program::default()
ProgramDefault == [instructions |-> <<>>, jump_table |-> EmptyTable]

\* Program::length()
ProgramLength(p) == Len(p.instructions)

\* Program::get_instruction(index)
ProgramGetInstruction(p, index) ==
    IF 0 <= index /\ index < Len(p.instructions)
    THEN Some(p.instructions[index + 1])
    ELSE None

-----------------------------------------------------------------------------
(* Inputs *)

RECURSIVE SeqsUpTo(_, _)
SeqsUpTo(S, n) ==
    IF n = 0 THEN {<<>>}
    ELSE LET shorter == SeqsUpTo(S, n - 1)
         IN  shorter \cup {Append(s, x) : s \in {t \in shorter : Len(t) = n - 1}, x \in S}

\* "+++"
ScenarioA == <<"IncrementValue", "IncrementValue", "IncrementValue">>

\* "+[-]"
ScenarioB == <<"IncrementValue", "JumpForward", "DecrementValue", "JumpBackward">>

\* ">>"
ScenarioC == <<"IncrementPointer", "IncrementPointer">>

\* the program of the three unit tests
TestProgram ==
    <<"IncrementPointer", "DecrementPointer", "IncrementValue",
      "DecrementValue", "OutputValue", "InputValue", "JumpForward",
      "JumpBackward", "NoOp">>

\* the program of the doc examples
DocProgram == <<"IncrementPointer", "IncrementValue">>

\* "<>" : leaves the tape on the left and comes back
LeftRight == <<"DecrementPointer", "IncrementPointer">>

\* "[]", "[-]", "[.]" ... : loops
LoopPrograms ==
    {<<"JumpForward", "JumpBackward">>,
     <<"JumpForward", "DecrementValue", "JumpBackward">>,
     <<"NoOp", "JumpForward", "JumpBackward">>,
     <<"JumpForward", "JumpForward", "JumpBackward", "JumpBackward">>}

\* the instruction sequences a host hands to Program::from
InstructionInputs ==
    SeqsUpTo(Instruction, MaxLen)
        \cup {ScenarioA, ScenarioB, ScenarioC, TestProgram, DocProgram, LeftRight}
        \cup LoopPrograms

-----------------------------------------------------------------------------
(* Nybble, IterableNybble *)

Nybble == 0 .. 15

\* Nybble::get_bit_ref(index): index 0 is the least significant bit
\* (the iteration of Nybble::from_u8(0b1010) starts 0, 1, 0, 1)
GetBitRef(n, index) ==
    CASE index = 0 -> n % 2
      [] index = 1 -> (n \div 2) % 2
      [] index = 2 -> (n \div 4) % 2
      [] index = 3 -> (n \div 8) % 2

\* IterableNybble::new
IterableNybbleNew(n) ==
    /\ nybble = n
    /\ current_index = 0
    /\ yielded = <<>>
    /\ bit_refs = <<>>

\* nothing has been observed yet
NothingObserved ==
    /\ io_calls = <<>>
    /\ fetched = [called |-> FALSE]

-----------------------------------------------------------------------------
(* VirtualMachine *)

\* impl Default for VirtualMachine
Default ==
    /\ tape = TapeNew(TapeLen)
    /\ memory_pointer = 0
    /\ program = ProgramDefault
    /\ program_counter = 0

\* The state after construction.  overflow_checks is the build profile:
\* TRUE when integer overflow panics (debug), FALSE when it wraps (release).
\* outcome is how the last call ended: "ok" (it returned) or "panic".
\* instructions and built are the host's: the last sequence handed to
\* Program::from and what came back.
Init ==
    /\ Default
    /\ overflow_checks \in BOOLEAN
    /\ outcome = "ok"
    /\ instructions = <<>>
    /\ built = [kind |-> "none"]
    /\ NothingObserved
    /\ IterableNybbleNew(0)

\* VirtualMachine::load
load(p) ==
    /\ program' = p
    /\ UNCHANGED <<tape, memory_pointer, program_counter>>

\* VirtualMachine::length
length == tape.length

\* a lookup by the memory pointer instead of the program counter
get_instruction_by_memory_pointer ==
    ProgramGetInstruction(program, memory_pointer)

\* VirtualMachine::get_instruction
get_instruction == ProgramGetInstruction(program, program_counter)

\* a panic unwinds out of execute_instruction before anything is stored
Panic ==
    /\ outcome' = "panic"
    /\ UNCHANGED <<tape, memory_pointer>>

\* self.memory_pointer += 1
increment_pointer ==
    IF memory_pointer = -1 /\ overflow_checks
    THEN Panic
    ELSE /\ memory_pointer' = memory_pointer + 1
         /\ outcome' = "ok"
         /\ UNCHANGED tape

\* self.memory_pointer -= 1
decrement_pointer ==
    IF memory_pointer = 0 /\ overflow_checks
    THEN Panic
    ELSE /\ memory_pointer' = memory_pointer - 1
         /\ outcome' = "ok"
         /\ UNCHANGED tape

\* let mut value = self.tape[self.memory_pointer]; value.increment();
increment_value ==
    IF ~TapeHas(tape, memory_pointer)
    THEN Panic
    ELSE LET value == TapeGet(tape, memory_pointer)
             incremented == ByteIncrement(value)
         IN  /\ incremented \in Byte
             /\ outcome' = "ok"
             /\ UNCHANGED <<tape, memory_pointer>>

\* let mut value = self.tape[self.memory_pointer]; value.decrement();
decrement_value ==
    IF ~TapeHas(tape, memory_pointer)
    THEN Panic
    ELSE LET value == TapeGet(tape, memory_pointer)
             decremented == ByteDecrement(value)
         IN  /\ decremented \in Byte
             /\ outcome' = "ok"
             /\ UNCHANGED <<tape, memory_pointer>>

\* todo!("Implement output_value")
output_value == Panic

\* todo!("Implement input_value")
input_value == Panic

\* todo!("Implement jump_forward")
jump_forward == Panic

\* todo!("Implement jump_backward")
jump_backward == Panic

\* the match of execute_instruction
dispatch(current_instruction) ==
    \/ current_instruction = "IncrementPointer" /\ increment_pointer
    \/ current_instruction = "DecrementPointer" /\ decrement_pointer
    \/ current_instruction = "IncrementValue" /\ increment_value
    \/ current_instruction = "DecrementValue" /\ decrement_value
    \/ current_instruction = "OutputValue" /\ output_value
    \/ current_instruction = "InputValue" /\ input_value
    \/ current_instruction = "JumpForward" /\ jump_forward
    \/ current_instruction = "JumpBackward" /\ jump_backward
    \/ /\ current_instruction = "NoOp"
       /\ outcome' = "ok"
       /\ UNCHANGED <<tape, memory_pointer>>

\* VirtualMachine::execute_instruction
execute_instruction ==
    /\ outcome = "ok"
    /\ program_counter < MaxPC
    /\ dispatch(UnwrapOr(get_instruction, "NoOp"))
    /\ program_counter' =
          IF outcome' = "ok" THEN program_counter + 1 ELSE program_counter
    /\ UNCHANGED <<program, overflow_checks, instructions, built>>
    /\ UNCHANGED <<observed, iterator>>

-----------------------------------------------------------------------------
(* The host *)

\* let program = Program::from(instructions); machine.load(program);
HostLoadFrom(inputs) ==
    /\ outcome = "ok"
    /\ \E instrs \in inputs :
          LET r == ProgramFrom(instrs)
          IN  /\ instructions' = instrs
              /\ built' = r
              /\ IF r.kind = "program"
                 THEN load(r.program)
                 ELSE UNCHANGED vm
    /\ UNCHANGED <<overflow_checks, outcome, observed, iterator>>

HostLoad == HostLoadFrom(InstructionInputs)

Next == HostLoad \/ execute_instruction

Spec == Init /\ [][Next]_vars

-----------------------------------------------------------------------------
(* The host driver: construct a machine, load one program, run it to Halted *)

\* load onto the machine as constructed
LoadFresh ==
    /\ Default
    /\ HostLoadFrom(InstructionInputs \cup SeqsUpTo(Instruction, MaxDrive))

\* execute_instruction while program_counter < program.length
Drive ==
    /\ program_counter < ProgramLength(program)
    /\ execute_instruction

NextDrive == LoadFresh \/ Drive

SpecDrive == Init /\ [][NextDrive]_vars

-----------------------------------------------------------------------------
(* Program construction alone *)

JumpAlphabet == {"JumpForward", "JumpBackward", "IncrementValue"}

InitProgram ==
    /\ Default
    /\ overflow_checks \in BOOLEAN
    /\ outcome = "ok"
    /\ instructions \in SeqsUpTo(JumpAlphabet, MaxScan)
    /\ built = [kind |-> "none"]
    /\ NothingObserved
    /\ IterableNybbleNew(0)

\* let program = Program::from(instructions);
Construct ==
    /\ built.kind = "none"
    /\ built' = ProgramFrom(instructions)
    /\ UNCHANGED <<vm, overflow_checks, outcome, instructions>>
    /\ UNCHANGED <<observed, iterator>>

SpecProgram == InitProgram /\ [][Construct]_vars

-----------------------------------------------------------------------------
(* Vocabulary of the properties *)

IsJump(x) == x \in {"JumpForward", "JumpBackward"}

\* positions of the jump instructions of s
JumpPositions(s) == {k \in 0 .. Len(s) - 1 : IsJump(s[k + 1])}

\* open brackets after the first n instructions of s
Depth(s, n) ==
    Cardinality({k \in 1 .. n : s[k] = "JumpForward"})
        - Cardinality({k \in 1 .. n : s[k] = "JumpBackward"})

Balanced(s) ==
    /\ \A n \in 0 .. Len(s) : Depth(s, n) >= 0
    /\ Depth(s, Len(s)) = 0

\* the JumpBackward closing the JumpForward at position i of a balanced s:
\* the first position after i where the depth is back to that before i
MatchOf(s, i) ==
    CHOOSE j \in i + 1 .. Len(s) - 1 :
        /\ Depth(s, j + 1) = Depth(s, i)
        /\ \A m \in i + 1 .. j - 1 : Depth(s, m + 1) > Depth(s, i)

\* the cell under the pointer
Cell == TapeGet(tape, memory_pointer)

Fetched(x) == get_instruction = Some(x)

-----------------------------------------------------------------------------
(* Properties *)

\* C1: executing IncrementValue (DecrementValue) replaces the cell under the
\* pointer by its value plus 1 (minus 1) modulo 256, in the tape itself.
C1_ValueStoredInTape ==
    [][ /\ (execute_instruction /\ Fetched("IncrementValue")
                /\ TapeHas(tape, memory_pointer))
            => tape' = TapeSet(tape, memory_pointer, ByteIncrement(Cell))
        /\ (execute_instruction /\ Fetched("DecrementValue")
                /\ TapeHas(tape, memory_pointer))
            => tape' = TapeSet(tape, memory_pointer, ByteDecrement(Cell))
      ]_vars

\* C2: load sets program_counter to 0 and installs the program, and leaves
\* the tape and memory_pointer as they were.
C2_LoadResetsCounter ==
    [][ (HostLoad /\ built'.kind = "program")
            => /\ program_counter' = 0
               /\ program' = built'.program
               /\ tape' = tape
               /\ memory_pointer' = memory_pointer
      ]_vars

\* C3: IncrementPointer at the last cell and DecrementPointer at cell 0
\* report PointerOutOfBounds to the caller and leave memory_pointer as it was.
C3_PointerOutOfBounds ==
    [][ (/\ execute_instruction
         /\ \/ Fetched("IncrementPointer") /\ memory_pointer = length - 1
            \/ Fetched("DecrementPointer") /\ memory_pointer = 0)
            => /\ outcome' = "PointerOutOfBounds"
               /\ memory_pointer' = memory_pointer
      ]_vars

\* C4: the pointer is always a valid index of the tape.  (A negative
\* memory_pointer stands for a usize value near usize::MAX, far above length.)
C4_PointerInTape == 0 <= memory_pointer /\ memory_pointer < length

\* C5: program_counter never exceeds the length of the loaded program.
C5_CounterInProgram ==
    0 <= program_counter /\ program_counter <= ProgramLength(program)

\* C6: JumpForward at p continues after the matching JumpBackward when the
\* cell is 0 and at p + 1 otherwise; the tape and the pointer are unchanged.
C6_JumpForward ==
    [][ (execute_instruction /\ Fetched("JumpForward")
            /\ TapeHas(tape, memory_pointer))
            => /\ outcome' = "ok"
               /\ program_counter' =
                     IF Cell = 0
                     THEN program.jump_table[program_counter] + 1
                     ELSE program_counter + 1
               /\ tape' = tape
               /\ memory_pointer' = memory_pointer
      ]_vars

\* C7: JumpBackward at p returns to the matching JumpForward when the cell
\* is not 0 and continues at p + 1 otherwise; the tape and the pointer are
\* unchanged.
C7_JumpBackward ==
    [][ (execute_instruction /\ Fetched("JumpBackward")
            /\ TapeHas(tape, memory_pointer))
            => /\ outcome' = "ok"
               /\ program_counter' =
                     IF Cell # 0
                     THEN program.jump_table[program_counter]
                     ELSE program_counter + 1
               /\ tape' = tape
               /\ memory_pointer' = memory_pointer
      ]_vars

\* C8: driven from a fresh machine, "+[-]" is either Halted (program_counter
\* = 4) with cell 0 equal to 0, or still running: the run does not stop short
\* of Halted.
C8_LoopRunsToHalted ==
    program.instructions = ScenarioB
    => \/ /\ program_counter = ProgramLength(program)
          /\ TapeGet(tape, 0) = 0
       \/ /\ program_counter < ProgramLength(program)
          /\ outcome = "ok"

\* C9: a sequence with unbalanced brackets is rejected with MalformedProgram
\* when the Program is constructed, and the machine never holds a program
\* with unbalanced brackets or with a jump table that misses a jump.
C9_MalformedNeverLoaded ==
    /\ Balanced(program.instructions)
    /\ DOMAIN program.jump_table = JumpPositions(program.instructions)
    /\ built.kind # "none"
          => (built = MalformedProgram <=> ~Balanced(instructions))
    /\ built.kind = "program" => program = built.program

\* a construction was rejected while the machine runs a loaded program
C9_Witness ==
    /\ built = MalformedProgram
    /\ instructions \in {<<"JumpForward">>, <<"JumpBackward">>}
    /\ program.instructions # <<>>
    /\ program_counter > 0

\* C10: for a balanced sequence the scan's jump table maps every JumpForward
\* position i to the position j > i of its properly nested JumpBackward and
\* j back to i; "[[]]" gives 0<->3 and 1<->2, "[]" gives 0<->1.
C10_JumpTablePairsBrackets ==
    built.kind # "none" =>
        /\ Balanced(instructions) => built.kind = "program"
        /\ built.kind = "program" =>
              LET t == built.program.jump_table
              IN  /\ built.program.instructions = instructions
                  /\ DOMAIN t = JumpPositions(instructions)
                  /\ \A i \in DOMAIN t :
                        instructions[i + 1] = "JumpForward" =>
                            /\ t[i] = MatchOf(instructions, i)
                            /\ t[i] > i
                            /\ instructions[t[i] + 1] = "JumpBackward"
                  /\ \A k \in DOMAIN t : t[t[k]] = k
        /\ instructions = <<"JumpForward", "JumpBackward">> =>
              /\ built.program.jump_table[0] = 1
              /\ built.program.jump_table[1] = 0
        /\ instructions =
              <<"JumpForward", "JumpForward", "JumpBackward", "JumpBackward">> =>
              /\ built.program.jump_table[0] = 3
              /\ built.program.jump_table[3] = 0
              /\ built.program.jump_table[1] = 2
              /\ built.program.jump_table[2] = 1

\* the table of "[[]]" has been built
C10_Witness ==
    /\ instructions =
          <<"JumpForward", "JumpForward", "JumpBackward", "JumpBackward">>
    /\ built.kind = "program"
    /\ DOMAIN built.program.jump_table = {0, 1, 2, 3}

-----------------------------------------------------------------------------
(* Observing the machine *)

\* a caller's machine.get_instruction(): &self, nothing is stored
get_instruction_call ==
    /\ outcome = "ok"
    /\ fetched' = [called |-> TRUE, result |-> get_instruction]
    /\ UNCHANGED <<vm, overflow_checks, outcome, instructions, built>>
    /\ UNCHANGED <<io_calls, iterator>>

\* machine.memory_pointer = 9; (the test module writes the private field)
set_memory_pointer ==
    /\ outcome = "ok"
    /\ \E k \in 0 .. MaxPointer : memory_pointer' = k
    /\ UNCHANGED <<tape, program, program_counter>>
    /\ UNCHANGED <<overflow_checks, outcome, instructions, built>>
    /\ UNCHANGED <<observed, iterator>>

\* one program loaded on a fresh machine, then steps and get_instruction calls
NextQuery == LoadFresh \/ execute_instruction \/ get_instruction_call

SpecQuery == Init /\ [][NextQuery]_vars

\* tests::test_machine_get_instruction: load, get_instruction, store into
\* memory_pointer, get_instruction; no step is executed
NextTest == LoadFresh \/ set_memory_pointer \/ get_instruction_call

SpecTest == Init /\ [][NextTest]_vars

\* C11: OutputValue calls write_byte exactly once with the value of the cell
\* under the pointer and leaves the tape and the pointer unchanged; no
\* instruction other than OutputValue and InputValue makes an I/O call.
C11_OutputWritesCell ==
    [][ execute_instruction =>
          /\ (Fetched("OutputValue") /\ TapeHas(tape, memory_pointer))
                => /\ outcome' = "ok"
                   /\ io_calls' = Append(io_calls,
                                         [op |-> "write_byte", byte |-> Cell])
                   /\ tape' = tape
                   /\ memory_pointer' = memory_pointer
          /\ (~Fetched("OutputValue") /\ ~Fetched("InputValue"))
                => io_calls' = io_calls
      ]_vars

\* C12: InputValue calls read_byte exactly once and the step completes; only
\* the cell under the pointer may change (to the byte read; not at all at end
\* of input) and the pointer is unchanged.
C12_InputReadsCell ==
    [][ (execute_instruction /\ Fetched("InputValue")
            /\ TapeHas(tape, memory_pointer))
            => /\ outcome' = "ok"
               /\ io_calls' = Append(io_calls, [op |-> "read_byte"])
               /\ \/ tape' = tape
                  \/ \E b \in Byte : tape' = TapeSet(tape, memory_pointer, b)
               /\ memory_pointer' = memory_pointer
      ]_vars

\* C13: no execute_instruction call ever panics.
C13_NeverPanics == outcome # "panic"

\* C14: execute_instruction on a Halted machine (program_counter at or past
\* the end of the program) changes neither the tape, the pointer nor
\* program_counter.
C14_HaltedStepDoesNothing ==
    [][ (execute_instruction /\ program_counter >= ProgramLength(program))
            => UNCHANGED <<tape, memory_pointer, program_counter>>
      ]_vars

C18_NoneByMemoryPointer ==
    [][ (/\ get_instruction_call
         /\ program_counter = 0
         /\ ProgramLength(program) > 0
         /\ memory_pointer = ProgramLength(program))
            => fetched'.result = None
      ]_vars

\* C19: a successful IncrementPointer moves the pointer by +1 and a
\* successful DecrementPointer by -1, and neither changes a cell;
\* IncrementValue and DecrementValue leave the pointer and every other cell
\* unchanged; NoOp leaves both unchanged; each of the five advances
\* program_counter by exactly 1 and none changes the tape length or the
\* program.
C19_StepFrame ==
    [][ execute_instruction =>
          LET ins == UnwrapOr(get_instruction, "NoOp")
          IN  /\ (ins = "IncrementPointer" /\ outcome' = "ok") =>
                    /\ memory_pointer' = memory_pointer + 1
                    /\ tape' = tape
                    /\ program_counter' = program_counter + 1
              /\ (ins = "DecrementPointer" /\ outcome' = "ok") =>
                    /\ memory_pointer' = memory_pointer - 1
                    /\ tape' = tape
                    /\ program_counter' = program_counter + 1
              /\ ins \in {"IncrementValue", "DecrementValue"} =>
                    /\ memory_pointer' = memory_pointer
                    /\ \A i \in (DOMAIN tape.cells \cup DOMAIN tape'.cells)
                                    \ {memory_pointer} :
                            TapeGet(tape', i) = TapeGet(tape, i)
                    /\ program_counter' = program_counter + 1
              /\ ins = "NoOp" =>
                    /\ tape' = tape
                    /\ memory_pointer' = memory_pointer
                    /\ program_counter' = program_counter + 1
              /\ ins \in {"IncrementPointer", "DecrementPointer",
                          "IncrementValue", "DecrementValue", "NoOp"} =>
                    /\ tape'.length = tape.length
                    /\ program' = program
      ]_vars

-----------------------------------------------------------------------------
(* IterableNybble *)

InitNybble ==
    /\ Default
    /\ overflow_checks \in BOOLEAN
    /\ outcome = "ok"
    /\ instructions = <<>>
    /\ built = [kind |-> "none"]
    /\ NothingObserved
    /\ \E n \in Nybble : IterableNybbleNew(n)

\* what no next() call touches
NextFrame ==
    UNCHANGED <<nybble, vm, overflow_checks, outcome, instructions, built,
                observed>>

\* next() that yields the bits from index 3 down to index 0
next_reversed ==
    /\ Len(yielded) < MaxCalls
    /\ LET next_index == current_index + 1
       IN  IF next_index > 4
           THEN /\ current_index' = 0
                /\ yielded' = Append(yielded, None)
                /\ bit_refs' = bit_refs
           ELSE /\ current_index' = next_index
                /\ yielded' = Append(yielded,
                                     Some(GetBitRef(nybble, 3 - current_index)))
                /\ bit_refs' = Append(bit_refs, 3 - current_index)
    /\ NextFrame

\* next() that stops one item early
next_three_items ==
    /\ Len(yielded) < MaxCalls
    /\ LET next_index == current_index + 1
       IN  IF next_index > 3
           THEN /\ current_index' = 0
                /\ yielded' = Append(yielded, None)
                /\ bit_refs' = bit_refs
           ELSE /\ current_index' = next_index
                /\ yielded' = Append(yielded,
                                     Some(GetBitRef(nybble, current_index)))
                /\ bit_refs' = Append(bit_refs, current_index)
    /\ NextFrame

\* next() of a fused iterator: once exhausted it stays exhausted
next_fused ==
    /\ Len(yielded) < MaxCalls
    /\ LET next_index == current_index + 1
       IN  IF next_index > 4
           THEN /\ current_index' = current_index
                /\ yielded' = Append(yielded, None)
                /\ bit_refs' = bit_refs
           ELSE /\ current_index' = next_index
                /\ yielded' = Append(yielded,
                                     Some(GetBitRef(nybble, current_index)))
                /\ bit_refs' = Append(bit_refs, current_index)
    /\ NextFrame

\* Iterator for IterableNybble: next().  current_index is a u8; it never
\* exceeds 4, so current_index + 1 does not overflow.
next ==
    /\ Len(yielded) < MaxCalls
    /\ LET next_index == current_index + 1
       IN  IF next_index > 4
           THEN /\ current_index' = 0
                /\ yielded' = Append(yielded, None)
                /\ bit_refs' = bit_refs
           ELSE /\ current_index' = next_index
                /\ yielded' = Append(yielded,
                                     Some(GetBitRef(nybble, current_index)))
                /\ bit_refs' = Append(bit_refs, current_index)
    /\ NextFrame

SpecNybble == InitNybble /\ [][next]_vars

\* the k-th item yielded, for an item that is a Bit
Item(k) == yielded[k].value

FirstFourAreBits ==
    /\ Len(yielded) >= 4
    /\ \A k \in 1 .. 4 : yielded[k].some

\* C16 as stated: the 4 Bits yielded, read left to right as a binary numeral
\* (most significant first), equal the Nybble's value.
C16_MostSignificantFirst ==
    FirstFourAreBits =>
        8 * Item(1) + 4 * Item(2) + 2 * Item(3) + Item(4) = nybble

\* C16 as amended: the Nybble yields its bits least significant first: the
\* first four next() calls yield 4 Bits and the k-th has weight 2^(k-1).
C16_LeastSignificantFirst ==
    Len(yielded) >= 4 =>
        /\ FirstFourAreBits
        /\ Item(1) + 2 * Item(2) + 4 * Item(3) + 8 * Item(4) = nybble

\* 0b0011 has been iterated: 1, 1, 0, 0
C16_Witness ==
    /\ nybble = 3
    /\ Len(yielded) = 4
    /\ yielded = <<Some(1), Some(1), Some(0), Some(0)>>

\* C17: on a fresh IterableNybble the k-th next() call, k = 1..4, returns
\* Some(bit at index k-1) and the 5th returns None (0, 1, 0, 1, None for
\* 0b1010); the Nybble is not modified.
C17_FourItemsThenNone ==
    [][ next =>
          LET k == Len(yielded) + 1
          IN  /\ nybble' = nybble
              /\ k <= 4 =>
                    yielded' = Append(yielded, Some(GetBitRef(nybble, k - 1)))
              /\ k = 5 => yielded' = Append(yielded, None)
              /\ (k = 5 /\ nybble = 10) =>
                    yielded' = <<Some(0), Some(1), Some(0), Some(1), None>>
      ]_vars

\* the test's iteration of 0b1010 has run to its None
C17_Witness ==
    /\ nybble = 10
    /\ yielded = <<Some(0), Some(1), Some(0), Some(1), None>>

\* C20: current_index stays within 0..4 and get_bit_ref is only called with
\* an index in 0..3; the call that returns None resets current_index to 0,
\* so the results repeat with period 5: 4 bits, None, the same 4 bits, None.
C20_PeriodFive ==
    /\ current_index \in 0 .. 4
    /\ \A i \in 1 .. Len(bit_refs) : bit_refs[i] \in 0 .. 3
    /\ current_index = Len(yielded) % 5
    /\ \A k \in 1 .. Len(yielded) :
          /\ (k % 5 = 0) <=> (yielded[k] = None)
          /\ k > 5 => yielded[k] = yielded[k - 5]

\* two full rounds over 0b1010
C20_Witness ==
    /\ nybble = 10
    /\ Len(yielded) = 10
    /\ yielded[10] = None
    /\ yielded[7] = Some(1)
    /\ current_index = 0

====
